---- MODULE Spec2Model ----
(***************************************************************************)
(* Model of the trip-distance pipeline of src/src/main/main.go together    *)
(* with the strict decoders of src/src/latlong/coordinate.go and           *)
(* src/src/nvector/coordinate.go.                                          *)
(*                                                                         *)
(* Three sequential processes run concurrently: loadTrips (lt_pc),         *)
(* computeDistances (cd_pc) and main's receive loop (main_pc).  They are    *)
(* connected by two unbuffered channels; a send on an unbuffered channel   *)
(* completes in the same instant as the matching receive, so each channel  *)
(* operation is one joint action of the sender and the receiver.           *)
(*                                                                         *)
(* Numbers: JSON numbers, latitudes and longitudes are integers (degrees). *)
(* Distances are measured in degrees of arc on the sphere.                 *)
(***************************************************************************)
EXTENDS Integers, Sequences, FiniteSets, TLC

(***************************************************************************)
(* Bounds of the explored inputs.                                          *)
(***************************************************************************)
MaxLines == 3
MaxId == 1

(***************************************************************************)
(* JSON text.  A text either parses as a JSON object (isObj, with obj a    *)
(* function from its keys to its values) or it does not.  A value is a     *)
(* number or a string.                                                     *)
(***************************************************************************)
Num(n) == [t |-> "num", v |-> n]
Str(n) == [t |-> "str", v |-> n]
Object(o) == [isObj |-> TRUE, obj |-> o]
EmptyText == [isObj |-> FALSE, obj |-> <<>>]

IsFloat64(val) == val.t = "num"

(***************************************************************************)
(* Errors.  NilErr is Go's nil error; Err(msg, s) is errors.New(msg + s).  *)
(***************************************************************************)
NilErr == [nil |-> TRUE, msg |-> "<nil>", s |-> EmptyText]
Err(msg, s) == [nil |-> FALSE, msg |-> msg, s |-> s]

(***************************************************************************)
(* The three coordinate types and the nil LatLonger.                       *)
(***************************************************************************)
LatLongCoordinate(lat, lon) ==
    [kind |-> "latlong", Latitude |-> lat, Longitude |-> lon]
NVectorCoordinate(x, y, z) ==
    [kind |-> "nvector", X |-> x, Y |-> y, Z |-> z]
UtmCoordinate(e, n, zn, zl) ==
    [kind |-> "utm", Easting |-> e, Northing |-> n,
     ZoneNumber |-> zn, ZoneLetter |-> zl]
NilLatLonger == [kind |-> "nil"]

(* Variant: the two fields are stored crosswise. *)
latlongUnmarshalJSON_Swapped(b) ==
    LET zero == LatLongCoordinate(0, 0)
        obj == b.obj
        n == Cardinality(DOMAIN obj)
    IN  IF ~b.isObj \/ n # 2 \/ DOMAIN obj # {"Latitude", "Longitude"}
          THEN [err |-> Err("Cannot decode: latlong.Coordinate", EmptyText), c |-> zero]
        ELSE IF ~IsFloat64(obj["Latitude"]) \/ ~IsFloat64(obj["Longitude"])
          THEN [err |-> Err("Wrong type for field", EmptyText), c |-> zero]
        ELSE [err |-> NilErr,
              c |-> LatLongCoordinate(obj["Longitude"].v, obj["Latitude"].v)]

(* Variant: the number of fields is not checked. *)
latlongUnmarshalJSON_NoCountCheck(b) ==
    LET zero == LatLongCoordinate(0, 0)
        obj == b.obj
    IN  IF ~b.isObj THEN [err |-> Err("invalid JSON object", EmptyText), c |-> zero]
        ELSE IF "Latitude" \notin DOMAIN obj
          THEN [err |-> Err("Missing field: Latitude", EmptyText), c |-> zero]
        ELSE IF ~IsFloat64(obj["Latitude"])
          THEN [err |-> Err("Wrong type for field: Latitude", EmptyText), c |-> zero]
        ELSE IF "Longitude" \notin DOMAIN obj
          THEN [err |-> Err("Missing field: Longitude", EmptyText), c |-> zero]
        ELSE IF ~IsFloat64(obj["Longitude"])
          THEN [err |-> Err("Wrong type for field: Longitude", EmptyText), c |-> zero]
        ELSE [err |-> NilErr,
              c |-> LatLongCoordinate(obj["Latitude"].v, obj["Longitude"].v)]

(***************************************************************************)
(* latlong.Coordinate.UnmarshalJSON: the error it returns and the value    *)
(* the receiver holds afterwards (the zero value unless it succeeds).      *)
(***************************************************************************)
latlongUnmarshalJSON(b) ==
    LET zero == LatLongCoordinate(0, 0)
        obj == b.obj
        n == Cardinality(DOMAIN obj)
    IN  IF ~b.isObj THEN [err |-> Err("invalid JSON object", EmptyText), c |-> zero]
        ELSE IF n > 2
          THEN [err |-> Err("Too many fields for: latlong.Coordinate", EmptyText), c |-> zero]
        ELSE IF n < 2
          THEN [err |-> Err("Not enough fields for: latlong.Coordinate", EmptyText), c |-> zero]
        ELSE IF "Latitude" \notin DOMAIN obj
          THEN [err |-> Err("Missing field: Latitude", EmptyText), c |-> zero]
        ELSE IF ~IsFloat64(obj["Latitude"])
          THEN [err |-> Err("Wrong type for field: Latitude", EmptyText), c |-> zero]
        ELSE IF "Longitude" \notin DOMAIN obj
          THEN [err |-> Err("Missing field: Longitude", EmptyText), c |-> zero]
        ELSE IF ~IsFloat64(obj["Longitude"])
          THEN [err |-> Err("Wrong type for field: Longitude", EmptyText), c |-> zero]
        ELSE [err |-> NilErr,
              c |-> LatLongCoordinate(obj["Latitude"].v, obj["Longitude"].v)]

(* Variant: the number of fields is not checked. *)
nvectorUnmarshalJSON_NoCountCheck(b) ==
    LET zero == NVectorCoordinate(0, 0, 0)
        obj == b.obj
    IN  IF ~b.isObj THEN [err |-> Err("invalid JSON object", EmptyText), c |-> zero]
        ELSE IF "X" \notin DOMAIN obj
          THEN [err |-> Err("Missing field: X", EmptyText), c |-> zero]
        ELSE IF ~IsFloat64(obj["X"])
          THEN [err |-> Err("Wrong type for field: X", EmptyText), c |-> zero]
        ELSE IF "Y" \notin DOMAIN obj
          THEN [err |-> Err("Missing field: Y", EmptyText), c |-> zero]
        ELSE IF ~IsFloat64(obj["Y"])
          THEN [err |-> Err("Wrong type for field: Y", EmptyText), c |-> zero]
        ELSE IF "Z" \notin DOMAIN obj
          THEN [err |-> Err("Missing field: Y", EmptyText), c |-> zero]
        ELSE IF ~IsFloat64(obj["Z"])
          THEN [err |-> Err("Wrong type for field: Y", EmptyText), c |-> zero]
        ELSE [err |-> NilErr,
              c |-> NVectorCoordinate(obj["X"].v, obj["Y"].v, obj["Z"].v)]

(***************************************************************************)
(* nvector.Coordinate.UnmarshalJSON.  The messages for a bad "Z" name "Y", *)
(* as in the source.                                                       *)
(***************************************************************************)
nvectorUnmarshalJSON(b) ==
    LET zero == NVectorCoordinate(0, 0, 0)
        obj == b.obj
        n == Cardinality(DOMAIN obj)
    IN  IF ~b.isObj THEN [err |-> Err("invalid JSON object", EmptyText), c |-> zero]
        ELSE IF n > 3
          THEN [err |-> Err("Too many fields for: nvector.Coordinate", EmptyText), c |-> zero]
        ELSE IF n < 3
          THEN [err |-> Err("Not enough fields for: nvector.Coordinate", EmptyText), c |-> zero]
        ELSE IF "X" \notin DOMAIN obj
          THEN [err |-> Err("Missing field: X", EmptyText), c |-> zero]
        ELSE IF ~IsFloat64(obj["X"])
          THEN [err |-> Err("Wrong type for field: X", EmptyText), c |-> zero]
        ELSE IF "Y" \notin DOMAIN obj
          THEN [err |-> Err("Missing field: Y", EmptyText), c |-> zero]
        ELSE IF ~IsFloat64(obj["Y"])
          THEN [err |-> Err("Wrong type for field: Y", EmptyText), c |-> zero]
        ELSE IF "Z" \notin DOMAIN obj
          THEN [err |-> Err("Missing field: Y", EmptyText), c |-> zero]
        ELSE IF ~IsFloat64(obj["Z"])
          THEN [err |-> Err("Wrong type for field: Y", EmptyText), c |-> zero]
        ELSE [err |-> NilErr,
              c |-> NVectorCoordinate(obj["X"].v, obj["Y"].v, obj["Z"].v)]

(***************************************************************************)
(* utm.Coordinate.UnmarshalJSON (package utm is imported by main.go but    *)
(* its source is not part of the tree): accepts exactly the four fields    *)
(* Easting, Northing, ZoneNumber (numbers) and ZoneLetter (text).          *)
(***************************************************************************)
utmUnmarshalJSON(b) ==
    LET zero == UtmCoordinate(0, 0, 0, 0)
        obj == b.obj
    IN  IF /\ b.isObj
           /\ DOMAIN obj = {"Easting", "Northing", "ZoneNumber", "ZoneLetter"}
           /\ IsFloat64(obj["Easting"])
           /\ IsFloat64(obj["Northing"])
           /\ IsFloat64(obj["ZoneNumber"])
           /\ ~IsFloat64(obj["ZoneLetter"])
        THEN [err |-> NilErr,
              c |-> UtmCoordinate(obj["Easting"].v, obj["Northing"].v,
                                  obj["ZoneNumber"].v, obj["ZoneLetter"].v)]
        ELSE [err |-> Err("cannot unmarshal utm.Coordinate", EmptyText), c |-> zero]

(***************************************************************************)
(* unmarshalLatLonger: latlong first, then nvector, then utm; the first    *)
(* that returns a nil error wins.                                          *)
(***************************************************************************)
unmarshalLatLonger(s) ==
    LET lt == latlongUnmarshalJSON(s)
        n == nvectorUnmarshalJSON(s)
        u == utmUnmarshalJSON(s)
    IN  IF lt.err.nil THEN [l |-> lt.c, err |-> NilErr]
        ELSE IF n.err.nil THEN [l |-> n.c, err |-> NilErr]
        ELSE IF u.err.nil THEN [l |-> u.c, err |-> NilErr]
        ELSE [l |-> NilLatLonger, err |-> Err("Cannot unmarshal coordinate: ", s)]

(***************************************************************************)
(* Angles.  deg(atan2(y, x)) in whole degrees, for the directions that are *)
(* multiples of 45 degrees; atan2(0, 0) = 0 as in Go's math.Atan2.         *)
(* Hypot(x, y) is math.Hypot where the result is a whole number.           *)
(***************************************************************************)
Abs(n) == IF n < 0 THEN 0 - n ELSE n

Hypot(x, y) == CHOOSE h \in 0..(Abs(x) + Abs(y)) : h * h = x * x + y * y

Atan2Deg(y, x) ==
    IF y = 0 THEN (IF x < 0 THEN 180 ELSE 0)
    ELSE IF x = 0 THEN (IF y > 0 THEN 90 ELSE 0 - 90)
    ELSE IF Abs(x) = Abs(y)
      THEN (IF x > 0 THEN (IF y > 0 THEN 45 ELSE 0 - 45)
                     ELSE (IF y > 0 THEN 135 ELSE 0 - 135))
    ELSE CHOOSE a \in {} : TRUE

(***************************************************************************)
(* nvector.Coordinate.ToLatLong.                                           *)
(***************************************************************************)
ToLatLong(c) ==
    LatLongCoordinate(Atan2Deg(c.Z, Hypot(c.X, c.Y)), Atan2Deg(c.Y, c.X))

(***************************************************************************)
(* utm.Coordinate's inverse projection, for points on the equator and on   *)
(* the central meridian of their zone (easting 500000): the central        *)
(* meridian of zone n is at 6n - 183 degrees.                              *)
(***************************************************************************)
CentralEasting == 500000

utmToLatLong(c) ==
    IF c.Northing = 0 /\ c.Easting = CentralEasting
    THEN LatLongCoordinate(0, 6 * c.ZoneNumber - 183)
    ELSE CHOOSE a \in {} : TRUE

(***************************************************************************)
(* The LatLonger interface: Lat() and Lon() of each coordinate type.       *)
(***************************************************************************)
Lat(l) ==
    IF l.kind = "latlong" THEN l.Latitude
    ELSE IF l.kind = "nvector" THEN ToLatLong(l).Latitude
    ELSE utmToLatLong(l).Latitude

Lon(l) ==
    IF l.kind = "latlong" THEN l.Longitude
    ELSE IF l.kind = "nvector" THEN ToLatLong(l).Longitude
    ELSE utmToLatLong(l).Longitude

(***************************************************************************)
(* latlong.Distance: the great-circle distance, here the central angle in  *)
(* degrees between two points each of which is a pole or on the equator.   *)
(***************************************************************************)
Distance(a, b) ==
    LET pa == Abs(Lat(a)) = 90
        pb == Abs(Lat(b)) = 90
        dl == Abs(Lon(a) - Lon(b)) % 360
    IN  IF pa /\ pb THEN (IF Lat(a) = Lat(b) THEN 0 ELSE 180)
        ELSE IF pa \/ pb THEN 90
        ELSE IF dl > 180 THEN 360 - dl ELSE dl

(***************************************************************************)
(* Input lines.  A line has an integer at its start or not (hasId), and a  *)
(* payload after it or not (hasJs).                                        *)
(***************************************************************************)
Line(id, js) == [hasId |-> TRUE, id |-> id, hasJs |-> TRUE, js |-> js]
BlankLine == [hasId |-> FALSE, id |-> 0, hasJs |-> FALSE, js |-> EmptyText]
NoIdLine(js) == [hasId |-> FALSE, id |-> 0, hasJs |-> TRUE, js |-> js]
NoPayloadLine(id) == [hasId |-> TRUE, id |-> id, hasJs |-> FALSE, js |-> EmptyText]

GeoText(lat, lon) == Object([Latitude |-> Num(lat), Longitude |-> Num(lon)])
NvText(x, y, z) == Object([X |-> Num(x), Y |-> Num(y), Z |-> Num(z)])
UtmText(e, n, zn, zl) ==
    Object([Easting |-> Num(e), Northing |-> Num(n),
            ZoneNumber |-> Num(zn), ZoneLetter |-> Str(zl)])

(* a payload no variant accepts: the right two keys, a string for a number *)
BadText == Object([Latitude |-> Num(0), Longitude |-> Str(0)])

Ids == 0..MaxId

(* one line per id with the same point, one line for each other kind of   *)
(* coordinate, one with an undecodable payload, and the malformed lines   *)
Lines ==
    {Line(id, GeoText(0, 0)) : id \in Ids}
      \cup {Line(0, GeoText(0, 1)),
            Line(0, NvText(0, 1, 0)),
            Line(0, UtmText(CentralEasting, 0, 31, 0)),
            Line(MaxId, BadText)}
      \cup {BlankLine, NoIdLine(GeoText(0, 1)), NoPayloadLine(MaxId)}

Inputs == UNION {[1..n -> Lines] : n \in 0..MaxLines}

(* Variant: the payload is taken even when no id was scanned. *)
Sscanf_Lenient(line) ==
    [id |-> IF line.hasId THEN line.id ELSE 0,
     js |-> IF line.hasJs THEN line.js ELSE EmptyText]

(***************************************************************************)
(* fmt.Sscanf(line, "%d\t%s", &id, &js) on id = 0, js = "": the verbs are  *)
(* filled left to right and scanning stops at the first that fails.        *)
(***************************************************************************)
Sscanf(line) ==
    [id |-> IF line.hasId THEN line.id ELSE 0,
     js |-> IF line.hasId /\ line.hasJs THEN line.js ELSE EmptyText]

(***************************************************************************)
(* State.                                                                  *)
(*   input, readable   the file's lines, and whether os.Open succeeds      *)
(*   pos               number of lines scanner.Scan() has returned         *)
(*   lt_pc, tmp, cur   loadTrips: position, accumulator, and the id and    *)
(*                     the coordinate of the line being processed          *)
(*   fileOpen          the file handle is open                             *)
(*   tripsClosed, totalsClosed   the two channels' closed flags            *)
(*   cd_pc, cd_t, cd_dist, cd_i  computeDistances: position, t, dist, i    *)
(*   cd_calls          calls of latlong.Distance made for t                *)
(*   main_pc, stdout   main: position, and the totals it has printed       *)
(*   stderr            values printed to os.Stderr                         *)
(*   exited, exitCode  the process has ended, and with which code          *)
(*   sentTrips         the trips handed over on the trips channel, each    *)
(*                     with the points it held when it was sent            *)
(*   heap              the backing arrays of the trajectory slices         *)
(*   lib               a call of a library function on its own (outside    *)
(*                     the pipeline): function, argument, result           *)
(***************************************************************************)
VARIABLES input, readable, pos, lt_pc, tmp, cur, fileOpen,
          tripsClosed, totalsClosed,
          cd_pc, cd_t, cd_dist, cd_i, cd_calls,
          main_pc, stdout, stderr, exited, exitCode, sentTrips,
          heap, lib

vars == <<input, readable, pos, lt_pc, tmp, cur, fileOpen,
          tripsClosed, totalsClosed,
          cd_pc, cd_t, cd_dist, cd_i, cd_calls,
          main_pc, stdout, stderr, exited, exitCode, sentTrips,
          heap, lib>>

lt_vars == <<pos, lt_pc, tmp, cur, fileOpen, tripsClosed, sentTrips, heap>>
cd_vars == <<cd_pc, cd_t, cd_dist, cd_i, cd_calls, totalsClosed>>
main_vars == <<main_pc, stdout>>
exit_vars == <<stderr, exited, exitCode>>
file_vars == <<input, readable, lib>>

(***************************************************************************)
(* Slices.  A slice is a header (backing array, length, capacity); the     *)
(* arrays live in the heap, array 0 being none (the nil slice).  Copying   *)
(* a slice copies the header only.  append writes in place while the       *)
(* capacity allows and otherwise moves the elements to a new array of      *)
(* twice the capacity.                                                     *)
(***************************************************************************)
NilSlice == [arr |-> 0, len |-> 0, cap |-> 0]

Elems(h, sl) == IF sl.arr = 0 THEN <<>> ELSE SubSeq(h[sl.arr], 1, sl.len)

GoAppend(h, sl, x) ==
    IF sl.len < sl.cap
      THEN [heap |-> [h EXCEPT ![sl.arr][sl.len + 1] = x],
            slice |-> [sl EXCEPT !.len = sl.len + 1]]
      ELSE LET newcap == IF sl.cap = 0 THEN 1 ELSE 2 * sl.cap
               cells == [k \in 1..newcap |->
                           IF k <= sl.len THEN h[sl.arr][k]
                           ELSE IF k = sl.len + 1 THEN x
                           ELSE NilLatLonger]
           IN  [heap |-> Append(h, cells),
                slice |-> [arr |-> Len(h) + 1, len |-> sl.len + 1,
                           cap |-> newcap]]

(***************************************************************************)
(* trip and total values.                                                  *)
(***************************************************************************)
trip(id, trajectory) == [id |-> id, trajectory |-> trajectory]
total(id, distance) == [id |-> id, distance |-> distance]

(* var tmp = trip{0, nil} *)
InitTmp == trip(0, NilSlice)

(* a trip as the points its trajectory slice shows in heap h *)
TripValue(h, t) == trip(t.id, Elems(h, t.trajectory))

(* Variant: a record that does not decode is skipped. *)
ScanStep_SkipBad(line, t, h) ==
    LET sc == Sscanf(line)
        r == unmarshalLatLonger(sc.js)
        a == GoAppend(h, t.trajectory, r.l)
    IN  IF ~r.err.nil
          THEN [act |-> "append", tmp |-> t, heap |-> h,
                id |-> sc.id, l |-> r.l, e |-> r.err]
        ELSE IF t.id = sc.id
          THEN [act |-> "append", tmp |-> trip(t.id, a.slice), heap |-> a.heap,
                id |-> sc.id, l |-> r.l, e |-> r.err]
        ELSE [act |-> "send", tmp |-> t, heap |-> h,
              id |-> sc.id, l |-> r.l, e |-> r.err]

(* Variant: the error is tested after the append. *)
ScanStep_AppendFirst(line, t, h) ==
    LET sc == Sscanf(line)
        r == unmarshalLatLonger(sc.js)
        a == GoAppend(h, t.trajectory, r.l)
    IN  IF ~r.err.nil
          THEN [act |-> "exit", tmp |-> trip(t.id, a.slice), heap |-> a.heap,
                id |-> sc.id, l |-> r.l, e |-> r.err]
        ELSE IF t.id = sc.id
          THEN [act |-> "append", tmp |-> trip(t.id, a.slice), heap |-> a.heap,
                id |-> sc.id, l |-> r.l, e |-> r.err]
        ELSE [act |-> "send", tmp |-> t, heap |-> h,
              id |-> sc.id, l |-> r.l, e |-> r.err]

(* Variant: the accumulated trip is sent before every record. *)
ScanStep_SendEach(line, t, h) ==
    LET sc == Sscanf(line)
        r == unmarshalLatLonger(sc.js)
    IN  IF ~r.err.nil
          THEN [act |-> "exit", tmp |-> t, heap |-> h,
                id |-> sc.id, l |-> r.l, e |-> r.err]
        ELSE [act |-> "send", tmp |-> t, heap |-> h,
              id |-> sc.id, l |-> r.l, e |-> r.err]

(***************************************************************************)
(* One pass of loadTrips' loop body up to its channel send: scan the line, *)
(* decode the payload, then exit on an error, append on the same id, or    *)
(* go and send the accumulated trip.                                       *)
(***************************************************************************)
ScanStep(line, t, h) ==
    LET sc == Sscanf(line)
        r == unmarshalLatLonger(sc.js)
        a == GoAppend(h, t.trajectory, r.l)
    IN  IF ~r.err.nil
          THEN [act |-> "exit", tmp |-> t, heap |-> h,
                id |-> sc.id, l |-> r.l, e |-> r.err]
        ELSE IF t.id = sc.id
          THEN [act |-> "append", tmp |-> trip(t.id, a.slice), heap |-> a.heap,
                id |-> sc.id, l |-> r.l, e |-> r.err]
        ELSE [act |-> "send", tmp |-> t, heap |-> h,
              id |-> sc.id, l |-> r.l, e |-> r.err]

(* fmt.Fprintln(os.Stderr, err): err is os.Open's error, e the decoder's. *)
FatalMessage(e, err) == err

(* Variant: the new trip starts without the record that opened it. *)
ResetTmp_DropsRecord(t, id, l, h) ==
    [tmp |-> trip(id, NilSlice), heap |-> h]

(* Variant: tmp.trajectory = tmp.trajectory[:0], which keeps the array. *)
ResetTmp_Reuse(t, id, l, h) ==
    LET a == GoAppend(h, [t.trajectory EXCEPT !.len = 0], l)
    IN  [tmp |-> trip(id, a.slice), heap |-> a.heap]

(* tmp.id = id; tmp.trajectory = nil; tmp.trajectory = append(..., l): *)
(* the new tmp and the new heap                                         *)
ResetTmp(t, id, l, h) ==
    LET a == GoAppend(h, NilSlice, l)
    IN  [tmp |-> trip(id, a.slice), heap |-> a.heap]

(* Variant: a trip is taken while the previous total is still unsent. *)
cdReady_Eager == cd_pc \in {"recv", "send"}

(* for t := range trips: computeDistances is at its receive *)
cdReady == cd_pc = "recv"

(* Variant: the loop stops one pair early. *)
LoopCond_OffByOne(i, t) == i < t.trajectory.len - 2

(* i < len(t.trajectory)-1 *)
LoopCond(i, t) == i < t.trajectory.len - 1

(* Variant: the total carries the trajectory's length for the id. *)
MkTotal_WrongId(t, dist) == total(t.trajectory.len, dist)

(* total{t.id, dist} *)
MkTotal(t, dist) == total(t.id, dist)

(* no library call is under way *)
LibIdle == [fn |-> "none", pc |-> "idle"]

Init ==
    /\ readable \in BOOLEAN
    /\ input \in (IF readable THEN Inputs ELSE {<<>>})
    /\ pos = 0
    /\ lt_pc = "open"
    /\ tmp = InitTmp
    /\ cur = [id |-> 0, l |-> NilLatLonger]
    /\ fileOpen = FALSE
    /\ tripsClosed = FALSE
    /\ totalsClosed = FALSE
    /\ cd_pc = "recv"
    /\ cd_t = InitTmp
    /\ cd_dist = 0
    /\ cd_i = 0
    /\ cd_calls = 0
    /\ main_pc = "recv"
    /\ stdout = <<>>
    /\ stderr = <<>>
    /\ exited = FALSE
    /\ exitCode = 0
    /\ sentTrips = <<>>
    /\ heap = <<>>
    /\ lib = LibIdle

(***************************************************************************)
(* loadTrips.                                                              *)
(***************************************************************************)
(* Variant: a failed os.Open is ignored and the loop is entered. *)
LoadOpen_IgnoreError ==
    /\ ~exited
    /\ lt_pc = "open"
    /\ lt_pc' = "scan"
    /\ fileOpen' = readable
    /\ tmp' = InitTmp
    /\ UNCHANGED exit_vars
    /\ UNCHANGED <<pos, cur, tripsClosed, sentTrips, heap>>
    /\ UNCHANGED <<cd_vars, main_vars, file_vars>>

(* os.Open: on failure print the error and os.Exit(1) *)
LoadOpen ==
    /\ ~exited
    /\ lt_pc = "open"
    /\ IF readable
         THEN /\ lt_pc' = "scan"
              /\ fileOpen' = TRUE
              /\ tmp' = InitTmp
              /\ UNCHANGED exit_vars
         ELSE /\ stderr' = Append(stderr, Err("open: no such file", EmptyText))
              /\ exited' = TRUE
              /\ exitCode' = 1
              /\ UNCHANGED <<lt_pc, fileOpen, tmp>>
    /\ UNCHANGED <<pos, cur, tripsClosed, sentTrips, heap>>
    /\ UNCHANGED <<cd_vars, main_vars, file_vars>>

(* scanner.Scan() returns true: one pass of the loop body *)
LoadScan ==
    /\ ~exited
    /\ lt_pc = "scan"
    /\ pos < Len(input)
    /\ LET r == ScanStep(input[pos + 1], tmp, heap)
       IN  /\ pos' = pos + 1
           /\ cur' = [id |-> r.id, l |-> r.l]
           /\ tmp' = r.tmp
           /\ heap' = r.heap
           /\ IF r.act = "exit"
                THEN /\ stderr' = Append(stderr, FatalMessage(r.e, NilErr))
                     /\ exited' = TRUE
                     /\ exitCode' = 1
                     /\ lt_pc' = lt_pc
                ELSE /\ lt_pc' = (IF r.act = "send" THEN "send" ELSE "scan")
                     /\ UNCHANGED exit_vars
    /\ UNCHANGED <<fileOpen, tripsClosed, sentTrips>>
    /\ UNCHANGED <<cd_vars, main_vars, file_vars>>

(* scanner.Scan() returns false: leave the loop for the final send *)
LoadEOF ==
    /\ ~exited
    /\ lt_pc = "scan"
    /\ pos = Len(input)
    /\ lt_pc' = "sendFinal"
    /\ UNCHANGED <<pos, tmp, cur, fileOpen, tripsClosed, sentTrips, heap>>
    /\ UNCHANGED <<cd_vars, main_vars, file_vars, exit_vars>>

(* trips <- tmp meets t := <-trips: t gets tmp's id and a copy of its    *)
(* slice header; computeDistances then sets dist = 0 and i = 0           *)
TripsHandoff ==
    /\ ~exited
    /\ lt_pc \in {"send", "sendFinal"}
    /\ cdReady
    /\ ~tripsClosed
    /\ sentTrips' = Append(sentTrips, TripValue(heap, tmp))
    /\ cd_t' = tmp
    /\ cd_dist' = 0
    /\ cd_i' = 0
    /\ cd_calls' = 0
    /\ cd_pc' = "loop"
    /\ lt_pc' = (IF lt_pc = "send" THEN "reset" ELSE "close")
    /\ UNCHANGED <<pos, tmp, cur, fileOpen, tripsClosed, totalsClosed, heap>>
    /\ UNCHANGED <<main_vars, file_vars, exit_vars>>

(* after the send in the loop: start the next trip with this record *)
LoadReset ==
    /\ ~exited
    /\ lt_pc = "reset"
    /\ LET r == ResetTmp(tmp, cur.id, cur.l, heap)
       IN  /\ tmp' = r.tmp
           /\ heap' = r.heap
    /\ lt_pc' = "scan"
    /\ UNCHANGED <<pos, cur, fileOpen, tripsClosed, sentTrips>>
    /\ UNCHANGED <<cd_vars, main_vars, file_vars, exit_vars>>

(* Variant: loadTrips goes on to return without closing the trips channel. *)
LoadClose_NoClose ==
    /\ ~exited
    /\ lt_pc = "close"
    /\ lt_pc' = "return"
    /\ UNCHANGED <<pos, tmp, cur, fileOpen, sentTrips, tripsClosed, heap>>
    /\ UNCHANGED <<cd_vars, main_vars, file_vars, exit_vars>>

(* close(trips), the last statement of loadTrips *)
LoadClose ==
    /\ ~exited
    /\ lt_pc = "close"
    /\ tripsClosed' = TRUE
    /\ lt_pc' = "return"
    /\ UNCHANGED <<pos, tmp, cur, fileOpen, sentTrips, heap>>
    /\ UNCHANGED <<cd_vars, main_vars, file_vars, exit_vars>>

(* loadTrips returns, which runs the deferred file.Close() *)
LoadReturn ==
    /\ ~exited
    /\ lt_pc = "return"
    /\ fileOpen' = FALSE
    /\ lt_pc' = "done"
    /\ UNCHANGED <<pos, tmp, cur, tripsClosed, sentTrips, heap>>
    /\ UNCHANGED <<cd_vars, main_vars, file_vars, exit_vars>>

(***************************************************************************)
(* computeDistances.                                                       *)
(***************************************************************************)
(* one test of the inner loop's condition, and its body if it holds *)
CdLoop ==
    /\ ~exited
    /\ cd_pc = "loop"
    /\ IF LoopCond(cd_i, cd_t)
         THEN /\ cd_dist' = cd_dist
                           + Distance(heap[cd_t.trajectory.arr][cd_i + 1],
                                      heap[cd_t.trajectory.arr][cd_i + 2])
              /\ cd_i' = cd_i + 1
              /\ cd_calls' = cd_calls + 1
              /\ cd_pc' = cd_pc
         ELSE /\ cd_pc' = "send"
              /\ UNCHANGED <<cd_dist, cd_i, cd_calls>>
    /\ UNCHANGED <<cd_t, totalsClosed>>
    /\ UNCHANGED <<lt_vars, main_vars, file_vars, exit_vars>>

(* totals <- total{t.id, dist} meets tot := <-totals; main prints tot *)
TotalsHandoff ==
    /\ ~exited
    /\ cd_pc = "send"
    /\ main_pc = "recv"
    /\ ~totalsClosed
    /\ stdout' = Append(stdout, MkTotal(cd_t, cd_dist))
    /\ cd_pc' = "recv"
    /\ UNCHANGED <<cd_t, cd_dist, cd_i, cd_calls, totalsClosed, main_pc>>
    /\ UNCHANGED <<lt_vars, file_vars, exit_vars>>

(* range trips ends on the closed channel; close(totals) and return *)
CdClose ==
    /\ ~exited
    /\ cd_pc = "recv"
    /\ tripsClosed
    /\ totalsClosed' = TRUE
    /\ cd_pc' = "done"
    /\ UNCHANGED <<cd_t, cd_dist, cd_i, cd_calls>>
    /\ UNCHANGED <<lt_vars, main_vars, file_vars, exit_vars>>

(***************************************************************************)
(* main.                                                                   *)
(***************************************************************************)
(* range totals_chan ends on the closed channel; main returns *)
MainDone ==
    /\ ~exited
    /\ main_pc = "recv"
    /\ totalsClosed
    /\ main_pc' = "done"
    /\ exited' = TRUE
    /\ exitCode' = 0
    /\ UNCHANGED <<stdout, stderr>>
    /\ UNCHANGED <<lt_vars, cd_vars, file_vars>>

Next ==
    \/ LoadOpen
    \/ LoadScan
    \/ LoadEOF
    \/ TripsHandoff
    \/ LoadReset
    \/ LoadClose
    \/ LoadReturn
    \/ CdLoop
    \/ TotalsHandoff
    \/ CdClose
    \/ MainDone

Spec == Init /\ [][Next]_vars

(***************************************************************************)
(* The Go scheduler runs every goroutine that can take a step.             *)
(***************************************************************************)
FairSpec ==
    /\ Spec
    /\ WF_vars(LoadOpen)
    /\ WF_vars(LoadScan)
    /\ WF_vars(LoadEOF)
    /\ WF_vars(TripsHandoff)
    /\ WF_vars(LoadReset)
    /\ WF_vars(LoadClose)
    /\ WF_vars(LoadReturn)
    /\ WF_vars(CdLoop)
    /\ WF_vars(TotalsHandoff)
    /\ WF_vars(CdClose)
    /\ WF_vars(MainDone)

(***************************************************************************)
(* Real numbers in nvector.ToCoordinate are kept in hundredths.  Angles    *)
(* handed to the trigonometric functions lie on the 45-degree grid; pi is  *)
(* 355/113.                                                                *)
(***************************************************************************)
(* a / b for b > 0, rounded towards zero *)
Quot(a, b) == IF a < 0 THEN 0 - ((0 - a) \div b) ELSE a \div b

(* nvector.rad: degrees to radians (whole degrees in, hundredths out) *)
nvRad(d) == Quot(d * 100 * 355, 113 * 180)

(* nvector.deg: radians to degrees (hundredths in, hundredths out) *)
nvDeg(r) == Quot(r * 180 * 113, 355)

(* the angle of the 45-degree grid nearest to r hundredths of a radian *)
GridDeg(r) == ((nvDeg(r) + 2250) \div 4500) * 45

(* math.Sin and math.Cos, in hundredths, of r hundredths of a radian *)
SinDeg(d) ==
    LET m == d % 360
    IN  IF m \in {0, 180} THEN 0
        ELSE IF m = 90 THEN 100
        ELSE IF m = 270 THEN 0 - 100
        ELSE IF m \in {45, 135} THEN 71
        ELSE 0 - 71
Sin(r) == SinDeg(GridDeg(r))
Cos(r) == SinDeg(GridDeg(r) + 90)

(* the product of two numbers given in hundredths, in hundredths *)
Mul(a, b) == Quot(a * b, 100)

(***************************************************************************)
(* nvector.ToCoordinate: X, Y, Z in hundredths.                            *)
(***************************************************************************)
ToCoordinate(l) ==
    LET rlat == nvRad(Lat(l))
        rlon == nvRad(Lon(l))
    IN  NVectorCoordinate(nvDeg(Mul(Cos(rlat), Cos(rlon))),
                          nvDeg(Mul(Cos(rlat), Sin(rlon))),
                          nvDeg(Sin(rlat)))

(***************************************************************************)
(* Library calls on their own: the decoders on every JSON text over the    *)
(* keys of the variants, and ToCoordinate on the points of the 45-degree   *)
(* grid.                                                                   *)
(***************************************************************************)
MaxNum == 2

GeoKeys == {"Latitude", "Longitude"}
NvKeys == {"X", "Y", "Z"}
UtmKeys == {"Easting", "Northing", "ZoneNumber", "ZoneLetter"}
LowerGeoKeys == {"latitude", "longitude"}

Vals == {Num(n) : n \in 1..MaxNum} \cup {Str(0)}

KeySets ==
    (SUBSET (GeoKeys \cup NvKeys))
      \cup {S \cup T : S \in SUBSET UtmKeys, T \in SUBSET {"X"}}
      \cup {LowerGeoKeys}

Texts ==
    {EmptyText} \cup {Object(o) : o \in UNION {[S -> Vals] : S \in KeySets}}

GridPoints ==
    {LatLongCoordinate(45 * i, 45 * j) : i \in (0 - 2)..2, j \in (0 - 4)..4}

DecoderFns ==
    {"latlong.UnmarshalJSON", "nvector.UnmarshalJSON",
     "utm.UnmarshalJSON", "unmarshalLatLonger"}

LibCalls ==
    {[fn |-> f, pc |-> "call", arg |-> t] : f \in DecoderFns, t \in Texts}
      \cup {[fn |-> "ToCoordinate", pc |-> "call", arg |-> l] : l \in GridPoints}

LibReturn(out) == [fn |-> lib.fn, pc |-> "ret", arg |-> lib.arg, out |-> out]

pipe_vars == <<input, readable, lt_vars, cd_vars, main_vars, exit_vars>>

LibInit ==
    /\ lib \in LibCalls
    /\ readable = FALSE
    /\ input = <<>>
    /\ pos = 0
    /\ lt_pc = "open"
    /\ tmp = InitTmp
    /\ cur = [id |-> 0, l |-> NilLatLonger]
    /\ fileOpen = FALSE
    /\ tripsClosed = FALSE
    /\ totalsClosed = FALSE
    /\ cd_pc = "recv"
    /\ cd_t = InitTmp
    /\ cd_dist = 0
    /\ cd_i = 0
    /\ cd_calls = 0
    /\ main_pc = "recv"
    /\ stdout = <<>>
    /\ stderr = <<>>
    /\ exited = FALSE
    /\ exitCode = 0
    /\ sentTrips = <<>>
    /\ heap = <<>>

CallLatlongUnmarshal ==
    /\ lib.pc = "call"
    /\ lib.fn = "latlong.UnmarshalJSON"
    /\ lib' = LibReturn(latlongUnmarshalJSON(lib.arg))
    /\ UNCHANGED pipe_vars

CallNvectorUnmarshal ==
    /\ lib.pc = "call"
    /\ lib.fn = "nvector.UnmarshalJSON"
    /\ lib' = LibReturn(nvectorUnmarshalJSON(lib.arg))
    /\ UNCHANGED pipe_vars

CallUtmUnmarshal ==
    /\ lib.pc = "call"
    /\ lib.fn = "utm.UnmarshalJSON"
    /\ lib' = LibReturn(utmUnmarshalJSON(lib.arg))
    /\ UNCHANGED pipe_vars

CallUnmarshalLatLonger ==
    /\ lib.pc = "call"
    /\ lib.fn = "unmarshalLatLonger"
    /\ lib' = LibReturn(unmarshalLatLonger(lib.arg))
    /\ UNCHANGED pipe_vars

CallToCoordinate ==
    /\ lib.pc = "call"
    /\ lib.fn = "ToCoordinate"
    /\ lib' = LibReturn(ToCoordinate(lib.arg))
    /\ UNCHANGED pipe_vars

LibNext ==
    \/ CallLatlongUnmarshal
    \/ CallNvectorUnmarshal
    \/ CallUtmUnmarshal
    \/ CallUnmarshalLatLonger
    \/ CallToCoordinate

LibSpec == LibInit /\ [][LibNext]_vars

(***************************************************************************)
(* Vocabulary of the properties.                                           *)
(***************************************************************************)
(* the record a line yields, and whether its payload decodes *)
RecordOf(line) ==
    [id |-> Sscanf(line).id, l |-> unmarshalLatLonger(Sscanf(line).js).l]
Decodes(line) == unmarshalLatLonger(Sscanf(line).js).err.nil
Malformed(line) == ~line.hasId \/ ~line.hasJs
AllDecode == \A k \in 1..Len(input) : Decodes(input[k])

(* the trips of a record sequence: one per maximal block of equal ids *)
RECURSIVE GroupAdjacent(_, _)
GroupAdjacent(lines, acc) ==
    IF lines = <<>> THEN acc
    ELSE LET r == RecordOf(Head(lines))
             n == Len(acc)
         IN  IF n > 0 /\ acc[n].id = r.id
               THEN GroupAdjacent(Tail(lines),
                        [acc EXCEPT ![n] = trip(r.id, Append(acc[n].trajectory, r.l))])
               ELSE GroupAdjacent(Tail(lines), Append(acc, trip(r.id, <<r.l>>)))

ExpectedTrips == GroupAdjacent(input, <<>>)

(* the coordinates of a sequence of trips, and of a sequence of lines *)
RECURSIVE Flatten(_)
Flatten(ts) ==
    IF ts = <<>> THEN <<>> ELSE Head(ts).trajectory \o Flatten(Tail(ts))

CoordsOf(lines) == [k \in 1..Len(lines) |-> RecordOf(lines[k]).l]

(* the sum of the distances between consecutive points *)
RECURSIVE PathLength(_)
PathLength(traj) ==
    IF Len(traj) < 2 THEN 0
    ELSE Distance(traj[1], traj[2]) + PathLength(Tail(traj))

(* the trips loadTrips and computeDistances hold, as values *)
Tmp == TripValue(heap, tmp)
CdT == TripValue(heap, cd_t)

(* loadTrips has executed its last statement, close(trips) *)
LtFinished == lt_pc \in {"return", "done"}
AllDone == LtFinished /\ cd_pc = "done" /\ main_pc = "done"
DecodeAbort == readable /\ exited /\ exitCode = 1

(***************************************************************************)
(* C1.  When every record decodes, loadTrips emits exactly one trip per    *)
(* maximal block of contiguous records with the same id, in input order,   *)
(* with the block's id and the block's records.  Stated for the inputs     *)
(* that have at least one record; the empty file is C2.                    *)
(***************************************************************************)
C1_OneTripPerBlock ==
    (readable /\ input # <<>> /\ AllDecode /\ LtFinished)
        => sentTrips = ExpectedTrips

(***************************************************************************)
(* C2.  On an empty readable file no trip is sent, no total is printed     *)
(* and the process ends normally.                                          *)
(***************************************************************************)
C2_EmptyInputEmitsNothing ==
    (readable /\ input = <<>>) =>
        /\ sentTrips = <<>>
        /\ stdout = <<>>
        /\ (exited => exitCode = 0)

(***************************************************************************)
(* C3.  Each channel is closed only after its last send, nobody sends on   *)
(* a closed channel, each receive loop ends only on a closed channel, and  *)
(* when every record decodes all three stages eventually finish.           *)
(***************************************************************************)
C3_ShutdownOrder ==
    /\ tripsClosed =>
          /\ pos = Len(input)
          /\ sentTrips # <<>>
          /\ sentTrips[Len(sentTrips)] = Tmp
          /\ LtFinished
    /\ cd_pc = "done" => tripsClosed
    /\ totalsClosed => cd_pc = "done"
    /\ main_pc = "done" => totalsClosed
    /\ ~(lt_pc \in {"send", "sendFinal"} /\ tripsClosed)
    /\ ~(cd_pc = "send" /\ totalsClosed)

(* C3, in full: the shutdown order always holds, and termination. *)
C3_PipelineTerminates ==
    /\ []C3_ShutdownOrder
    /\ (readable /\ AllDecode) ~> (AllDone /\ exited /\ exitCode = 0)

C3_Witness ==
    /\ AllDone
    /\ Len(input) = MaxLines
    /\ Len(sentTrips) >= 2

(***************************************************************************)
(* C4.  The totals printed correspond one to one, in order, to the trips   *)
(* sent: the k-th total carries the k-th trip's id, and when main is done  *)
(* there are as many totals as trips.                                      *)
(***************************************************************************)
C4_TotalsFollowTrips ==
    /\ Len(stdout) <= Len(sentTrips)
    /\ \A k \in 1..Len(stdout) : stdout[k].id = sentTrips[k].id
    /\ main_pc = "done" => Len(stdout) = Len(sentTrips)

C4_Witness ==
    /\ main_pc = "done"
    /\ Len(stdout) >= 2
    /\ stdout[1].id # stdout[2].id

(***************************************************************************)
(* C5.  The total of a trip is the sum of the distances between its        *)
(* consecutive points, counted from 0 for every trip, with one Distance    *)
(* call per pair; a trip of 0 or 1 points has total 0 and no call.         *)
(***************************************************************************)
C5_TotalIsPathLength ==
    /\ cd_pc = "send" =>
          /\ cd_dist = PathLength(CdT.trajectory)
          /\ cd_calls = (IF Len(CdT.trajectory) < 2 THEN 0
                         ELSE Len(CdT.trajectory) - 1)
    /\ \A k \in 1..Len(stdout) :
          /\ stdout[k].distance = PathLength(sentTrips[k].trajectory)
          /\ Len(sentTrips[k].trajectory) < 2 => stdout[k].distance = 0

C5_Witness ==
    /\ Len(stdout) >= 2
    /\ Len(sentTrips[1].trajectory) >= 2
    /\ stdout[1].distance > 0
    /\ Len(sentTrips[2].trajectory) = 1
    /\ stdout[2].distance = 0

(***************************************************************************)
(* C6.  At most one message is in flight: the trips handed over exceed     *)
(* the totals printed by at most one, and computeDistances is back at its  *)
(* receive only when the total of every trip it took has been printed.     *)
(***************************************************************************)
C6_OneInFlight ==
    /\ Len(sentTrips) - Len(stdout) \in {0, 1}
    /\ cd_pc = "recv" => Len(sentTrips) = Len(stdout)

C6_Witness ==
    /\ lt_pc = "send"
    /\ cd_pc = "send"
    /\ Len(stdout) >= 1
    /\ Len(sentTrips) = Len(stdout) + 1

(***************************************************************************)
(* C7.  A record that does not decode ends the run at once with exit code  *)
(* 1: it is the last line read, the step that reads it changes neither     *)
(* the open trip nor the trips sent, and nothing changes after the exit.   *)
(***************************************************************************)
C7_AbortOnBadRecord ==
    /\ [](\A k \in 1..pos :
             ~Decodes(input[k]) => (exited /\ exitCode = 1 /\ pos = k))
    /\ [][(pos' = pos + 1 /\ ~Decodes(input[pos']))
             => (exited' /\ Tmp' = Tmp /\ sentTrips' = sentTrips)]_vars
    /\ [][exited => UNCHANGED <<pos, tmp, sentTrips, stdout>>]_vars

C7_Witness ==
    /\ DecodeAbort
    /\ pos >= 2
    /\ ~Malformed(input[pos])
    /\ Tmp.trajectory # <<>>
    /\ pos < Len(input)

(***************************************************************************)
(* C8 as claimed.  A run whose input has an undecodable record prints no   *)
(* total, not even for a trip that closed before the bad record was read   *)
(* (a trip that closed holds at least one record).                         *)
(***************************************************************************)
C8_NoTotalOnBadInput ==
    (readable /\ ~AllDecode) =>
        \A k \in 1..Len(stdout) : sentTrips[k].trajectory = <<>>

(***************************************************************************)
(* C8 as amended.  When the run has aborted on an undecodable record, the  *)
(* trips sent and the open trip hold exactly the records read before it;   *)
(* the open trip was never sent, and every total printed belongs to a trip *)
(* that was sent before the bad record was read.                           *)
(***************************************************************************)
C8_OnlyEarlierTripsTotalled ==
    DecodeAbort =>
        /\ Flatten(sentTrips) \o Tmp.trajectory
              = CoordsOf(SubSeq(input, 1, pos - 1))
        /\ pos > 1 => Tmp.trajectory # <<>>
        /\ Len(stdout) <= Len(sentTrips)
        /\ \A k \in 1..Len(stdout) :
              stdout[k] = total(sentTrips[k].id,
                                PathLength(sentTrips[k].trajectory))

C8_Witness ==
    /\ DecodeAbort
    /\ Len(stdout) >= 1
    /\ stdout[1].id = 0
    /\ sentTrips[1].trajectory # <<>>
    /\ Tmp.trajectory # <<>>

(***************************************************************************)
(* C9.  The message printed before the exit on an undecodable record is    *)
(* the error unmarshalLatLonger returned, which holds the payload text.    *)
(***************************************************************************)
C9_MessageNamesPayload ==
    DecodeAbort =>
        stderr = <<Err("Cannot unmarshal coordinate: ", Sscanf(input[pos]).js)>>

(***************************************************************************)
(* C10.  A line without an integer id or without a payload ends the run    *)
(* with exit code 1 when it is read, and adds no record to any trip: the   *)
(* trips hold one record per line read before it.                          *)
(***************************************************************************)
C10_MalformedLineAborts ==
    \A k \in 1..pos :
        Malformed(input[k]) =>
            /\ exited /\ exitCode = 1
            /\ pos = k
            /\ Len(Flatten(sentTrips)) + Len(Tmp.trajectory) = k - 1

C10_Witness ==
    /\ DecodeAbort
    /\ pos >= 2
    /\ Malformed(input[pos])
    /\ sentTrips # <<>>
    /\ Tmp.trajectory # <<>>

(***************************************************************************)
(* C11.  When the input file cannot be opened the run ends with exit code  *)
(* 1; no trip is ever sent, no total is ever printed, and the trips        *)
(* channel is neither sent on nor closed: loadTrips never leaves its       *)
(* os.Open and computeDistances never leaves its receive.                  *)
(***************************************************************************)
C11_OpenFailureIsFatal ==
    /\ [](~readable =>
            /\ sentTrips = <<>>
            /\ stdout = <<>>
            /\ ~tripsClosed
            /\ ~fileOpen
            /\ lt_pc = "open"
            /\ cd_pc = "recv"
            /\ (exited => (exitCode = 1 /\ Len(stderr) = 1)))
    /\ (~readable) ~> (exited /\ exitCode = 1)

C11_Witness ==
    /\ ~readable
    /\ exited
    /\ exitCode = 1
    /\ stderr # <<>>

(***************************************************************************)
(* C15.  Whenever the process has ended, or loadTrips has returned, the    *)
(* input file is closed.                                                   *)
(***************************************************************************)
C15_FileClosedOnEveryPath ==
    (exited \/ lt_pc = "done") => ~fileOpen

(***************************************************************************)
(* C17.  On a file with at least one record, every trip sent has a         *)
(* non-empty trajectory, and loadTrips is at a send only with a non-empty  *)
(* accumulator.                                                            *)
(***************************************************************************)
C17_NoEmptyTripSent ==
    input # <<>> =>
        /\ \A k \in 1..Len(sentTrips) : sentTrips[k].trajectory # <<>>
        /\ lt_pc \in {"send", "sendFinal"} => Tmp.trajectory # <<>>

(* the records of a sequence of trips, each with its trip's id *)
RECURSIVE TripRecords(_)
TripRecords(ts) ==
    IF ts = <<>> THEN <<>>
    ELSE [k \in 1..Len(Head(ts).trajectory) |->
             [id |-> Head(ts).id, l |-> Head(ts).trajectory[k]]]
           \o TripRecords(Tail(ts))

InputRecords == [k \in 1..Len(input) |-> RecordOf(input[k])]

(***************************************************************************)
(* C18.  When every record decodes, the records of the trips sent so far,  *)
(* each taken with its trip's id, are a prefix of the input's records, in  *)
(* input order, and are all of them once loadTrips has finished.           *)
(***************************************************************************)
C18_RecordsPreserved ==
    (readable /\ AllDecode) =>
        LET r == TripRecords(sentTrips)
        IN  /\ Len(r) <= Len(input)
            /\ r = SubSeq(InputRecords, 1, Len(r))
            /\ LtFinished => r = InputRecords
            /\ LtFinished => Flatten(sentTrips) = CoordsOf(input)

C18_Witness ==
    /\ readable /\ AllDecode /\ LtFinished
    /\ Len(input) = MaxLines
    /\ \E k \in 1..Len(sentTrips) :
          /\ sentTrips[k].id = 0
          /\ Len(sentTrips[k].trajectory) >= 2
    /\ \E k \in 1..Len(sentTrips) : sentTrips[k].id # 0

(***************************************************************************)
(* C19.  While computeDistances works on a trip, the trip it holds is the  *)
(* trip last sent, as it was when sent, and no step of any goroutine       *)
(* changes it; every send adds exactly the accumulator to the trips sent   *)
(* and takes loadTrips past its send statement.                            *)
(***************************************************************************)
C19_HandedOverOnce ==
    /\ [](cd_pc \in {"loop", "send"} => CdT = sentTrips[Len(sentTrips)])
    /\ [][(cd_pc \in {"loop", "send"} /\ cd_pc' \in {"loop", "send"})
             => CdT' = CdT]_vars
    /\ [][sentTrips' # sentTrips =>
             /\ lt_pc \in {"send", "sendFinal"}
             /\ lt_pc' \notin {"send", "sendFinal"}
             /\ sentTrips' = Append(sentTrips, Tmp)
             /\ CdT' = Tmp]_vars
    /\ [][(lt_pc \in {"send", "sendFinal"} /\ lt_pc' # lt_pc)
             => Len(sentTrips') = Len(sentTrips) + 1]_vars

C19_Witness ==
    /\ cd_pc = "loop"
    /\ lt_pc = "scan"
    /\ CdT.trajectory # <<>>
    /\ Tmp.trajectory # <<>>
    /\ Tmp.trajectory[1] # CdT.trajectory[1]
    /\ Len(heap) >= 2

(***************************************************************************)
(* C20.  No two trips sent one after the other carry the same id, and      *)
(* loadTrips is at the send inside its loop only when the record just      *)
(* read has an id other than the accumulator's.                            *)
(***************************************************************************)
C20_AdjacentIdsDiffer ==
    /\ \A k \in 1..(Len(sentTrips) - 1) : sentTrips[k].id # sentTrips[k + 1].id
    /\ lt_pc = "send" => cur.id # tmp.id

C20_Witness ==
    /\ Len(sentTrips) >= 3
    /\ sentTrips[1].id = sentTrips[3].id
    /\ sentTrips[1].trajectory # <<>>

(***************************************************************************)
(* Vocabulary of the decoder properties: a library call has returned, the  *)
(* three variants with their keys, and the decoder of each.                *)
(***************************************************************************)
Returned(fn) == lib.pc = "ret" /\ lib.fn = fn

Variants == {"latlong", "nvector", "utm"}

VariantKeys(v) ==
    IF v = "latlong" THEN GeoKeys ELSE IF v = "nvector" THEN NvKeys ELSE UtmKeys

NumericKeys(v) ==
    IF v = "utm" THEN UtmKeys \ {"ZoneLetter"} ELSE VariantKeys(v)

DecoderOf(v) ==
    IF v = "latlong" THEN "latlong.UnmarshalJSON"
    ELSE IF v = "nvector" THEN "nvector.UnmarshalJSON"
    ELSE "utm.UnmarshalJSON"

Decode(v, b) ==
    IF v = "latlong" THEN latlongUnmarshalJSON(b)
    ELSE IF v = "nvector" THEN nvectorUnmarshalJSON(b)
    ELSE utmUnmarshalJSON(b)

ZeroOf(v) ==
    IF v = "latlong" THEN LatLongCoordinate(0, 0)
    ELSE IF v = "nvector" THEN NVectorCoordinate(0, 0, 0)
    ELSE UtmCoordinate(0, 0, 0, 0)

(* an object with exactly the two given keys, both numbers *)
TwoNumbers(b, latKey, lonKey) ==
    /\ b.isObj
    /\ DOMAIN b.obj = {latKey, lonKey}
    /\ IsFloat64(b.obj[latKey])
    /\ IsFloat64(b.obj[lonKey])

Violates(v, b) ==
    \/ DOMAIN b.obj \ VariantKeys(v) # {}
    \/ VariantKeys(v) \ DOMAIN b.obj # {}
    \/ \E k \in NumericKeys(v) \cap DOMAIN b.obj : ~IsFloat64(b.obj[k])

(***************************************************************************)
(* C13.  A decoder given an object that has an extra key, lacks one of its *)
(* keys, or has a non-number where it expects a number returns an error    *)
(* and leaves its receiver at the zero value.  unmarshalLatLonger never    *)
(* returns a variant whose shape the object breaks; it returns the first   *)
(* later variant that accepts the object, and the nil coordinate with an   *)
(* error when the object breaks all three shapes.                          *)
(***************************************************************************)
C13_StrictDecodeFails ==
    /\ \A v \in Variants :
          (Returned(DecoderOf(v)) /\ lib.arg.isObj /\ Violates(v, lib.arg))
              => /\ ~lib.out.err.nil
                 /\ lib.out.c = ZeroOf(v)
    /\ (Returned("unmarshalLatLonger") /\ lib.arg.isObj) =>
          /\ \A v \in Variants : Violates(v, lib.arg) => lib.out.l.kind # v
          /\ (Violates("latlong", lib.arg) /\ nvectorUnmarshalJSON(lib.arg).err.nil)
                => lib.out = [l |-> nvectorUnmarshalJSON(lib.arg).c, err |-> NilErr]
          /\ (/\ Violates("latlong", lib.arg)
              /\ Violates("nvector", lib.arg)
              /\ utmUnmarshalJSON(lib.arg).err.nil)
                => lib.out = [l |-> utmUnmarshalJSON(lib.arg).c, err |-> NilErr]
          /\ (\A v \in Variants : Violates(v, lib.arg))
                => /\ lib.out.l = NilLatLonger
                   /\ ~lib.out.err.nil

C13_Witness ==
    /\ Returned("unmarshalLatLonger")
    /\ lib.arg.isObj
    /\ DOMAIN lib.arg.obj = GeoKeys \cup {"X"}
    /\ \A k \in DOMAIN lib.arg.obj : IsFloat64(lib.arg.obj[k])
    /\ lib.out.l = NilLatLonger
    /\ ~lib.out.err.nil

(* the variants whose decoder accepts b *)
AcceptedBy(b) == {v \in Variants : Decode(v, b).err.nil}

(* unmarshalLatLonger with its attempts made in the given order *)
FirstAccepted(order, b) ==
    IF \E i \in 1..Len(order) : Decode(order[i], b).err.nil
      THEN LET i == CHOOSE j \in 1..Len(order) :
                       /\ Decode(order[j], b).err.nil
                       /\ \A m \in 1..(j - 1) : ~Decode(order[m], b).err.nil
           IN  [l |-> Decode(order[i], b).c, err |-> NilErr]
      ELSE [l |-> NilLatLonger, err |-> Err("Cannot unmarshal coordinate: ", b)]

Orders ==
    {o \in [1..3 -> Variants] : \A v \in Variants : \E i \in 1..3 : o[i] = v}

(***************************************************************************)
(* C14.  At most one decoder accepts a text; a decoder accepts only an     *)
(* object whose key set is exactly its variant's key set; and              *)
(* unmarshalLatLonger returns what it would return with its three          *)
(* attempts made in any other order.                                       *)
(***************************************************************************)
C14_OneVariantAccepts ==
    /\ \A v \in Variants :
          (Returned(DecoderOf(v)) /\ lib.out.err.nil)
              => /\ lib.arg.isObj
                 /\ DOMAIN lib.arg.obj = VariantKeys(v)
                 /\ AcceptedBy(lib.arg) = {v}
    /\ Returned("unmarshalLatLonger") =>
          /\ Cardinality(AcceptedBy(lib.arg)) <= 1
          /\ \A v \in AcceptedBy(lib.arg) :
                /\ DOMAIN lib.arg.obj = VariantKeys(v)
                /\ lib.out.l.kind = v
          /\ \A o \in Orders : FirstAccepted(o, lib.arg) = lib.out

C14_Witness ==
    /\ Returned("unmarshalLatLonger")
    /\ AcceptedBy(lib.arg) = {"nvector"}
    /\ lib.out.l.kind = "nvector"
    /\ lib.out.l.X # lib.out.l.Z

(***************************************************************************)
(* C16.  ToCoordinate returns x = cos(lat) cos(lon), y = cos(lat) sin(lon) *)
(* and z = sin(lat) for lat and lon in radians, a vector of length 1 (in   *)
(* hundredths: the squares add up to 10000, within rounding).              *)
(***************************************************************************)
C16_UnitVector ==
    Returned("ToCoordinate") =>
        LET rlat == nvRad(lib.arg.Latitude)
            rlon == nvRad(lib.arg.Longitude)
            c == lib.out
        IN  /\ c.X = Mul(Cos(rlat), Cos(rlon))
            /\ c.Y = Mul(Cos(rlat), Sin(rlon))
            /\ c.Z = Sin(rlat)
            /\ Abs(c.X * c.X + c.Y * c.Y + c.Z * c.Z - 10000) <= 200

====
